---- MODULE Spec2Model ----
(***************************************************************************)
(* The gesture daemon's event handler (src/src/event_handler.rs): the      *)
(* in-progress gesture state, the three per-kind handlers with their       *)
(* dispatch scans over the binding table, and the event loop around them.  *)
(*                                                                         *)
(* Option<T> is modelled as a sequence: <<>> is None and <<v>> is Some(v). *)
(* Floating-point samples are modelled as integers: displacements in whole *)
(* units, the pinch scale in hundredths (100 is scale 1.0).                *)
(***************************************************************************)
EXTENDS Integers, Sequences, FiniteSets, TLC

VARIABLES
    event,      \* EventHandler.event: the in-progress gesture
    config,     \* EventHandler.config: the binding table (Config.gestures)
    is_xorg,    \* XDoHandler.is_xorg: the legacy-windowing flag
    loop,       \* position of main_loop: "running", "panicked", "exited"
    last,       \* the event handled by the latest step (its samples, when a scan read them)
    prev,       \* the kind of the gesture state before the latest step
    calls,      \* collaborator calls made by the latest step, in order
    result,     \* what the latest handler returned: "ok" or "err"
    scanned,    \* whether the latest step iterated over the binding table
    hist,       \* the finger count of the latest begin event and the direction
                \* classified by the latest update event handled since (else Any)
    main,       \* where the main thread is in run_eh
    lock,       \* the RwLock around the configuration: readers and writer
    scan,       \* the event loop inside a handler: polling or in the for loop
    ipc         \* the reload listener: its position, parsed table and reply

vars == <<event, config, is_xorg, loop, last, prev, calls, result, scanned, hist,
          main, lock, scan, ipc>>

----------------------------------------------------------------------------
(* Bounds *)

MaxBindings == 2      \* longest binding table
MaxSample == 12       \* the classifier is run on displacements in -MaxSample..MaxSample
MaxFactor == 3        \* and compared with itself on samples scaled by 1..MaxFactor
MaxReloads == 1       \* most tables swapped in by the reload listener

Fingers == {3, 4}
Deltas == {-1, 0, 1}
Scales == {80, 100, 120}
Angles == {-5, 5}
Samples == (0 - MaxSample)..MaxSample
WideScales == {80, 92, 93, 100, 107, 108, 120}
WideAngles == {-5, 0, 5}

----------------------------------------------------------------------------
(* gestures.rs: the data model *)

None == <<>>
Some(v) == <<v>>

SwipeDirs == {"Any", "N", "S", "E", "W", "NE", "NW", "SE", "SW"}
PinchDirs == {"In", "Out", "Clockwise", "CounterClockwise", "Any"}

Swipe(direction, fingers, update, start, end, acceleration, mouse_up_delay) ==
    [kind |-> "Swipe", direction |-> direction, fingers |-> fingers,
     update |-> update, start |-> start, end |-> end,
     acceleration |-> acceleration, mouse_up_delay |-> mouse_up_delay]

Pinch(fingers, direction, update, start, end) ==
    [kind |-> "Pinch", fingers |-> fingers, direction |-> direction,
     update |-> update, start |-> start, end |-> end]

Hold(fingers, action) ==
    [kind |-> "Hold", fingers |-> fingers, action |-> action]

GestureNone == [kind |-> "None"]

unwrap_or_default_sh(o) == IF o = None THEN "sh" ELSE o[1]
unwrap_or_default(o) == IF o = None THEN "" ELSE o[1]

Abs(n) == IF n < 0 THEN 0 - n ELSE n

\* SwipeDir::dir.  ratio > 1/(1+sqrt 2) with ratio = minor/major and
\* major >= minor >= 0, major > 0, is minor*sqrt 2 > major - minor, that is
\* 2*minor^2 > (major-minor)^2.
IsStill_either(x, y) == Abs(x) = 0 \/ Abs(y) = 0
IsStill_deadzone(x, y) == Abs(x) <= 1 /\ Abs(y) <= 1
IsStill(x, y) == Abs(x) = 0 /\ Abs(y) = 0

PrimaryHorizontal(x, y) == Abs(x) > Abs(y)

Oblique_half(minor, major) == 2 * minor > major
\* ratio > oblique_ratio, with ratio = minor / major (major > 0) and
\* oblique_ratio = 1 / (1 + sqrt(2)), in exact arithmetic
Oblique(minor, major) == 2 * minor * minor > (major - minor) * (major - minor)

SwipeDir_dir(x, y) ==
    IF IsStill(x, y) THEN "Any"
    ELSE
      LET primary_direction ==
            IF PrimaryHorizontal(x, y) THEN (IF x < 0 THEN "W" ELSE "E")
            ELSE (IF y < 0 THEN "N" ELSE "S")
          vertical == primary_direction \in {"N", "S"}
          minor == IF vertical THEN Abs(x) ELSE Abs(y)
          major == IF vertical THEN Abs(y) ELSE Abs(x)
          secondary_direction ==
            IF vertical THEN (IF x < 0 THEN "W" ELSE "E")
            ELSE (IF y < 0 THEN "N" ELSE "S")
      IN IF Oblique(minor, major)
         THEN CASE primary_direction = "N" /\ secondary_direction = "W" -> "NW"
                [] primary_direction = "N" /\ secondary_direction = "E" -> "NE"
                [] primary_direction = "S" /\ secondary_direction = "W" -> "SW"
                [] primary_direction = "S" /\ secondary_direction = "E" -> "SE"
                [] primary_direction = "E" /\ secondary_direction = "N" -> "NE"
                [] primary_direction = "E" /\ secondary_direction = "S" -> "SE"
                [] primary_direction = "W" /\ secondary_direction = "N" -> "NW"
                [] primary_direction = "W" /\ secondary_direction = "S" -> "SW"
                [] OTHER -> "Any"
         ELSE primary_direction

ScaleLow == 92
ScaleHigh == 108
ScaleOne == 100

PinchDir_dir_closed(scale, delta_angle) ==
    IF scale >= ScaleLow /\ scale <= ScaleHigh
    THEN (IF delta_angle > 0 THEN "Clockwise" ELSE "CounterClockwise")
    ELSE IF scale > ScaleOne THEN "Out" ELSE "In"

\* PinchDir::dir, scale in hundredths
PinchDir_dir(scale, delta_angle) ==
    IF scale > ScaleLow /\ scale < ScaleHigh
    THEN (IF delta_angle > 0 THEN "Clockwise" ELSE "CounterClockwise")
    ELSE IF scale > ScaleOne THEN "Out" ELSE "In"

----------------------------------------------------------------------------
(* The binding tables the daemon is started with *)

BindingPool ==
    { Swipe("Any", 3, Some("u-drag"), Some("s-drag"), Some("e-drag"), Some(15), Some(50)),
      Swipe("Any", 3, None, Some("s-half"), None, Some(20), None),
      Swipe("E", 3, Some("cmd-u"), None, Some("cmd-e"), None, None),
      Pinch(3, "Any", Some("pu-any"), Some("ps-any"), Some("pe-any")),
      Pinch(3, "Out", Some("pu-out"), None, Some("pe-out")),
      Hold(4, Some("hold4")) }

RECURSIVE SeqsUpTo(_, _)
SeqsUpTo(S, n) ==
    IF n = 0 THEN {<<>>}
    ELSE LET shorter == SeqsUpTo(S, n - 1)
         IN shorter \cup {Append(t, b) : t \in shorter, b \in S}

Tables == SeqsUpTo(BindingPool, MaxBindings)

----------------------------------------------------------------------------
(* Collaborators: command execution (utils) and pointer synthesis (xdo_handler) *)

ExecCall(i, slot, cmd, args) ==
    [idx |-> i, via |-> "exec", slot |-> slot, cmd |-> cmd, args |-> args, ok |-> TRUE]

XdoCall(i, op, args) ==
    [idx |-> i, via |-> "xdo", slot |-> op, cmd |-> "", args |-> args, ok |-> TRUE]

\* exec_command_from_string returns a Result: an empty template runs nothing
\* and succeeds, a non-empty one may fail.  failIdx names the binding whose
\* command fails in this scan (0: none does).
exec_command_from_string(c, failIdx) ==
    IF c.cmd # "" /\ c.idx = failIdx THEN "err" ELSE "ok"

ZeroArgs == <<0, 0, 0, 0>>
SwipeUpdateArgs_swapped(x, y) == <<y, x, 0, 0>>
SwipeUpdateArgs(x, y) == <<x, y, 0, 0>>
PinchUpdateArgs(delta_angle, scale) == <<0, 0, delta_angle, scale>>

TruncDiv10_floor(n) == n \div 10
\* `as i32` on the f64 product: truncation toward zero
TruncDiv10(n) == IF n >= 0 THEN n \div 10 ELSE 0 - ((0 - n) \div 10)

----------------------------------------------------------------------------
(* event_handler.rs: the dispatch scans *)

is_xorg_condition_nodelay(xorg, j) ==
    /\ xorg
    /\ j.acceleration # None
    /\ j.direction = "Any"

is_xorg_condition(xorg, j) ==
    /\ xorg
    /\ j.acceleration # None
    /\ j.mouse_up_delay # None
    /\ j.direction = "Any"

DirMatches_strict(jdir, sdir) == jdir = sdir
DirMatches(jdir, sdir) == jdir = sdir \/ jdir = "Any"

\* the body of `for gesture in ...gestures` of each phase: the call, if any,
\* made for binding j at table position i
SwipeBeginVisit(i, j, s, xorg) ==
    IF j.kind = "Swipe" /\ j.fingers = s.fingers
    THEN IF is_xorg_condition(xorg, j)
         THEN <<XdoCall(i, "mouse_down", <<1>>)>>
         ELSE IF DirMatches(j.direction, s.direction)
              THEN <<ExecCall(i, "start", unwrap_or_default(j.start), ZeroArgs)>>
              ELSE <<>>
    ELSE <<>>

SwipeUpdateVisit(i, j, s, swipe_dir, x, y, xorg) ==
    IF j.kind = "Swipe" /\ j.fingers = s.fingers
    THEN IF is_xorg_condition(xorg, j)
         THEN LET x_val == TruncDiv10(x * unwrap_or_default(j.acceleration))
                  y_val == TruncDiv10(y * unwrap_or_default(j.acceleration))
              IN <<XdoCall(i, "move_mouse_relative", <<x_val, y_val>>)>>
         ELSE IF DirMatches(j.direction, swipe_dir)
              THEN <<ExecCall(i, "update", unwrap_or_default(j.update), SwipeUpdateArgs(x, y))>>
              ELSE <<>>
    ELSE <<>>

SwipeEndVisit(i, j, s, xorg) ==
    IF j.kind = "Swipe" /\ j.fingers = s.fingers
    THEN IF is_xorg_condition(xorg, j)
         THEN <<XdoCall(i, "mouse_up_delay", <<1, unwrap_or_default(j.mouse_up_delay)>>)>>
         ELSE IF DirMatches(j.direction, s.direction)
              THEN <<ExecCall(i, "end", unwrap_or_default(j.end), ZeroArgs)>>
              ELSE <<>>
    ELSE <<>>

PinchBeginVisit(i, j, s) ==
    IF j.kind = "Pinch" /\ DirMatches(j.direction, s.direction) /\ j.fingers = s.fingers
    THEN <<ExecCall(i, "start", unwrap_or_default(j.start), ZeroArgs)>>
    ELSE <<>>

PinchUpdateVisit(i, j, s, dir, scale, delta_angle) ==
    IF j.kind = "Pinch" /\ DirMatches(j.direction, dir) /\ j.fingers = s.fingers
    THEN <<ExecCall(i, "update", unwrap_or_default(j.update), PinchUpdateArgs(delta_angle, scale))>>
    ELSE <<>>

PinchEndVisit(i, j, s) ==
    IF j.kind = "Pinch" /\ DirMatches(j.direction, s.direction) /\ j.fingers = s.fingers
    THEN <<ExecCall(i, "end", unwrap_or_default(j.end), ZeroArgs)>>
    ELSE <<>>

HoldEndVisit(i, j, s) ==
    IF j.kind = "Hold" /\ j.fingers = s.fingers
    THEN <<ExecCall(i, "action", unwrap_or_default(j.action), ZeroArgs)>>
    ELSE <<>>

\* whether the `?` after exec_command_from_string leaves the scan
Propagates(outcome) == outcome = "err"

\* The for loop over the table: visits[i] is what the body does for binding
\* i; an exec call that returns Err leaves the loop and the handler at once.
RECURSIVE RunScan(_, _, _, _)
RunScan(visits, i, failIdx, acc) ==
    IF i > Len(visits) THEN [calls |-> acc, result |-> "ok"]
    ELSE IF visits[i] = <<>> THEN RunScan(visits, i + 1, failIdx, acc)
    ELSE LET c == visits[i][1]
             outcome == IF c.via = "exec" THEN exec_command_from_string(c, failIdx) ELSE "ok"
         IN IF Propagates(outcome)
            THEN [calls |-> Append(acc, [c EXCEPT !.ok = FALSE]), result |-> "err"]
            ELSE RunScan(visits, i + 1, failIdx,
                         Append(acc, [c EXCEPT !.ok = (outcome = "ok")]))

NoScan == [calls |-> <<>>, result |-> "ok"]

\* the bindings whose command the scan reaches and could see fail, and 0
FailChoices(visits) ==
    {0} \cup {i \in 1..Len(visits) :
                visits[i] # <<>> /\ visits[i][1].via = "exec" /\ visits[i][1].cmd # ""}

----------------------------------------------------------------------------
(* event_handler.rs: the handlers and the event loop *)

Ev(kind, phase, fingers, dx, dy, scale, angle, cancelled) ==
    [kind |-> kind, phase |-> phase, fingers |-> fingers, dx |-> dx, dy |-> dy,
     scale |-> scale, angle |-> angle, cancelled |-> cancelled]

\* main_loop: .expect() on the handler's result
LoopAfter(r) == IF r = "err" THEN "panicked" ELSE "running"

\* the direction an update event is classified as
Classified(ev) ==
    IF ev.kind = "Swipe" THEN SwipeDir_dir(ev.dx, ev.dy)
    ELSE PinchDir_dir(ev.scale, ev.angle)

HistAfter(ev, sc) ==
    IF ev.phase = "begin" THEN [fingers |-> ev.fingers, dir |-> "Any"]
    ELSE IF ev.phase = "update" /\ sc THEN [hist EXCEPT !.dir = Classified(ev)]
    ELSE hist

\* what every handled event leaves behind, apart from the gesture state
Handled(ev, r, sc) ==
    /\ last' = ev
    /\ prev' = event.kind
    /\ calls' = r.calls
    /\ result' = r.result
    /\ scanned' = sc
    /\ loop' = LoopAfter(r.result)
    /\ hist' = HistAfter(ev, sc)
    /\ UNCHANGED <<config, is_xorg, main, lock, scan, ipc>>

SwipeBeginState_nofingers(f) == Swipe("Any", 0, None, None, None, None, None)
SwipeBeginState(f) == Swipe("Any", f, None, None, None, None, None)
PinchBeginState(f) == Pinch(f, "Any", None, None, None)
HoldBeginState(f) == Hold(f, None)

SwipeBegin(f) ==
    /\ loop = "running"
    /\ LET s == SwipeBeginState(f)
           visits == [i \in 1..Len(config) |-> SwipeBeginVisit(i, config[i], s, is_xorg)]
       IN \E failIdx \in FailChoices(visits) :
            /\ event' = s
            /\ Handled(Ev("Swipe", "begin", f, 0, 0, 0, 0, FALSE),
                       RunScan(visits, 1, failIdx, <<>>), TRUE)

SwipeUpdateState_stale(s, swipe_dir) ==
    Swipe(s.direction, s.fingers, None, None, None, None, None)
SwipeUpdateState(s, swipe_dir) ==
    Swipe(swipe_dir, s.fingers, None, None, None, None, None)
PinchUpdateState(s, dir) == Pinch(s.fingers, dir, None, None, None)

SwipeUpdate(x, y) ==
    /\ loop = "running"
    /\ event.kind = "Swipe"
    /\ LET swipe_dir == SwipeDir_dir(x, y)
           s == event
           visits == [i \in 1..Len(config) |->
                        SwipeUpdateVisit(i, config[i], s, swipe_dir, x, y, is_xorg)]
       IN \E failIdx \in FailChoices(visits) :
            LET r == RunScan(visits, 1, failIdx, <<>>)
            IN /\ event' = IF r.result = "ok"
                           THEN SwipeUpdateState(s, swipe_dir)
                           ELSE event
               /\ Handled(Ev("Swipe", "update", 0, x, y, 0, 0, FALSE), r, TRUE)

\* the Update arm when `if let Gesture::Swipe(s) = &self.event` does not
\* match: nothing is done, whatever the samples
SwipeUpdateIgnored ==
    /\ loop = "running"
    /\ event.kind # "Swipe"
    /\ event' = event
    /\ Handled(Ev("Swipe", "update", 0, 0, 0, 0, 0, FALSE), NoScan, FALSE)

SwipeEndScans_always(cancelled) == TRUE

\* `if !e.cancelled()` around the end scan
SwipeEndScans(cancelled) == ~cancelled

SwipeEnd(cancelled) ==
    /\ loop = "running"
    /\ LET ev == Ev("Swipe", "end", 0, 0, 0, 0, 0, cancelled)
       IN IF event.kind = "Swipe" /\ SwipeEndScans(cancelled)
          THEN LET s == event
                   visits == [i \in 1..Len(config) |-> SwipeEndVisit(i, config[i], s, is_xorg)]
               IN \E failIdx \in FailChoices(visits) :
                    /\ event' = event
                    /\ Handled(ev, RunScan(visits, 1, failIdx, <<>>), TRUE)
          ELSE /\ event' = event
               /\ Handled(ev, NoScan, FALSE)

PinchBegin(f) ==
    /\ loop = "running"
    /\ LET s == PinchBeginState(f)
           visits == [i \in 1..Len(config) |-> PinchBeginVisit(i, config[i], s)]
       IN \E failIdx \in FailChoices(visits) :
            /\ event' = s
            /\ Handled(Ev("Pinch", "begin", f, 0, 0, 0, 0, FALSE),
                       RunScan(visits, 1, failIdx, <<>>), TRUE)

PinchUpdate(scale, delta_angle) ==
    /\ loop = "running"
    /\ event.kind = "Pinch"
    /\ LET s == event
           dir == PinchDir_dir(scale, delta_angle)
           visits == [i \in 1..Len(config) |->
                        PinchUpdateVisit(i, config[i], s, dir, scale, delta_angle)]
       IN \E failIdx \in FailChoices(visits) :
            LET r == RunScan(visits, 1, failIdx, <<>>)
            IN /\ event' = IF r.result = "ok"
                           THEN PinchUpdateState(s, dir)
                           ELSE event
               /\ Handled(Ev("Pinch", "update", 0, 0, 0, scale, delta_angle, FALSE), r, TRUE)

PinchUpdateIgnored_clears ==
    /\ loop = "running"
    /\ event.kind # "Pinch"
    /\ event' = GestureNone
    /\ Handled(Ev("Pinch", "update", 0, 0, 0, 0, 0, FALSE), NoScan, FALSE)

\* the Update arm when `if let Gesture::Pinch(s) = &self.event` does not
\* match: nothing is done, whatever the samples
PinchUpdateIgnored ==
    /\ loop = "running"
    /\ event.kind # "Pinch"
    /\ event' = event
    /\ Handled(Ev("Pinch", "update", 0, 0, 0, 0, 0, FALSE), NoScan, FALSE)

PinchEnd ==
    /\ loop = "running"
    /\ LET ev == Ev("Pinch", "end", 0, 0, 0, 0, 0, FALSE)
       IN IF event.kind = "Pinch"
          THEN LET s == event
                   visits == [i \in 1..Len(config) |-> PinchEndVisit(i, config[i], s)]
               IN \E failIdx \in FailChoices(visits) :
                    /\ event' = event
                    /\ Handled(ev, RunScan(visits, 1, failIdx, <<>>), TRUE)
          ELSE /\ event' = event
               /\ Handled(ev, NoScan, FALSE)

HoldBegin(f) ==
    /\ loop = "running"
    /\ event' = HoldBeginState(f)
    /\ Handled(Ev("Hold", "begin", f, 0, 0, 0, 0, FALSE), NoScan, FALSE)

HoldEnd ==
    /\ loop = "running"
    /\ LET ev == Ev("Hold", "end", 0, 0, 0, 0, 0, FALSE)
       IN IF event.kind = "Hold"
          THEN LET s == event
                   visits == [i \in 1..Len(config) |-> HoldEndVisit(i, config[i], s)]
               IN \E failIdx \in FailChoices(visits) :
                    /\ event' = event
                    /\ Handled(ev, RunScan(visits, 1, failIdx, <<>>), TRUE)
          ELSE /\ event' = event
               /\ Handled(ev, NoScan, FALSE)

\* handle_event: any event that is not a pinch, swipe or hold gesture
OtherEvent ==
    /\ loop = "running"
    /\ event' = event
    /\ Handled(Ev("Other", "none", 0, 0, 0, 0, 0, FALSE), NoScan, FALSE)

\* the event loop outside the for loop of a handler
ScanIdle == [pc |-> "poll", pos |-> 0, tab |-> <<>>]

\* main_loop: poll() fails, the while loop ends and main_loop returns
PollError ==
    /\ loop = "running"
    /\ loop' = "exited"
    /\ last' = Ev("PollError", "none", 0, 0, 0, 0, 0, FALSE)
    /\ prev' = event.kind
    /\ calls' = <<>>
    /\ result' = "ok"
    /\ scanned' = FALSE
    /\ UNCHANGED <<event, config, is_xorg, hist, main, lock, scan, ipc>>

\* handle_event: input.dispatch().unwrap() panics on a stream error
DispatchError ==
    /\ loop = "running"
    /\ loop' = "panicked"
    /\ last' = Ev("DispatchError", "none", 0, 0, 0, 0, 0, FALSE)
    /\ prev' = event.kind
    /\ calls' = <<>>
    /\ result' = "ok"
    /\ scanned' = FALSE
    /\ UNCHANGED <<event, config, is_xorg, hist, main, lock, scan, ipc>>

Init ==
    /\ event = GestureNone
    /\ config \in Tables
    /\ is_xorg \in BOOLEAN
    /\ loop = "running"
    /\ last = Ev("Start", "none", 0, 0, 0, 0, 0, FALSE)
    /\ prev = "None"
    /\ calls = <<>>
    /\ result = "ok"
    /\ scanned = FALSE
    /\ hist = [fingers |-> 0, dir |-> "Any"]
    /\ main = "create_socket"
    /\ lock = [readers |-> 0, writer |-> FALSE]
    /\ scan = ScanIdle
    /\ ipc = [pc |-> "accept", pending |-> <<>>, reply |-> "none", ver |-> 0,
              installed |-> config]

Next ==
    \/ \E f \in Fingers : SwipeBegin(f)
    \/ \E x \in Deltas, y \in Deltas : SwipeUpdate(x, y)
    \/ SwipeUpdateIgnored
    \/ \E c \in BOOLEAN : SwipeEnd(c)
    \/ \E f \in Fingers : PinchBegin(f)
    \/ \E sc \in Scales, a \in Angles : PinchUpdate(sc, a)
    \/ PinchUpdateIgnored
    \/ PinchEnd
    \/ \E f \in Fingers : HoldBegin(f)
    \/ HoldEnd
    \/ OtherEvent
    \/ PollError
    \/ DispatchError

Spec == Init /\ [][Next]_vars

\* The classifiers run by the update handlers on a wider range of samples,
\* with no binding to dispatch to.
InitClassify ==
    /\ Init
    /\ config = <<>>
    /\ is_xorg = FALSE

NextClassify ==
    \/ \E f \in Fingers : SwipeBegin(f)
    \/ \E x \in Samples, y \in Samples : SwipeUpdate(x, y)
    \/ \E f \in Fingers : PinchBegin(f)
    \/ \E sc \in WideScales, a \in WideAngles : PinchUpdate(sc, a)

SpecClassify == InitClassify /\ [][NextClassify]_vars

----------------------------------------------------------------------------
(* run_eh: the event loop thread and the reload listener on the shared     *)
(* configuration.  Here a handler is taken one iteration of its for loop   *)
(* at a time, so that the listener can run between two iterations.         *)

LockPool ==
    { Swipe("Any", 3, Some("u-drag"), Some("s-drag"), Some("e-drag"), Some(15), Some(50)),
      Swipe("E", 3, Some("cmd-u"), None, Some("cmd-e"), None, None) }

LockTables == SeqsUpTo(LockPool, MaxBindings)

LockEvents ==
    { Ev("Swipe", "begin", 3, 0, 0, 0, 0, FALSE),
      Ev("Swipe", "update", 0, 1, 0, 0, 0, FALSE),
      Ev("Swipe", "update", 0, 0, 1, 0, 0, FALSE),
      Ev("Swipe", "end", 0, 0, 0, 0, 0, FALSE),
      Ev("Swipe", "end", 0, 0, 0, 0, 0, TRUE),
      Ev("Hold", "begin", 4, 0, 0, 0, 0, FALSE),
      Ev("Hold", "end", 0, 0, 0, 0, 0, FALSE) }

\* the state a begin event assigns before its scan
BeginState(ev) ==
    CASE ev.kind = "Swipe" -> SwipeBeginState(ev.fingers)
      [] ev.kind = "Pinch" -> PinchBeginState(ev.fingers)
      [] OTHER -> HoldBeginState(ev.fingers)

\* whether the handler of ev enters a for loop over the table
Scans(ev) ==
    CASE ev.phase = "begin" -> ev.kind \in {"Swipe", "Pinch"}
      [] ev.phase = "update" -> event.kind = ev.kind
      [] ev.phase = "end" ->
           event.kind = ev.kind /\ (ev.kind = "Swipe" => SwipeEndScans(ev.cancelled))
      [] OTHER -> FALSE

\* the body of the for loop of the handler of ev, on binding i of tab
VisitOf(ev, tab, i, s, xorg) ==
    LET j == tab[i]
    IN CASE ev.kind = "Swipe" /\ ev.phase = "begin" -> SwipeBeginVisit(i, j, s, xorg)
         [] ev.kind = "Swipe" /\ ev.phase = "update" ->
              SwipeUpdateVisit(i, j, s, Classified(ev), ev.dx, ev.dy, xorg)
         [] ev.kind = "Swipe" /\ ev.phase = "end" -> SwipeEndVisit(i, j, s, xorg)
         [] ev.kind = "Pinch" /\ ev.phase = "begin" -> PinchBeginVisit(i, j, s)
         [] ev.kind = "Pinch" /\ ev.phase = "update" ->
              PinchUpdateVisit(i, j, s, Classified(ev), ev.scale, ev.angle)
         [] ev.kind = "Pinch" /\ ev.phase = "end" -> PinchEndVisit(i, j, s)
         [] OTHER -> HoldEndVisit(i, j, s)

\* the state assigned after the for loop
PostState(ev, s) ==
    IF ev.phase # "update" THEN s
    ELSE IF ev.kind = "Swipe" THEN SwipeUpdateState(s, Classified(ev))
    ELSE PinchUpdateState(s, Classified(ev))

\* RwLock: read() waits for the writer, write() for the readers and the writer
CanRead_anytime(l) == TRUE
CanRead(l) == ~l.writer
CanWrite(l) == l.readers = 0 /\ ~l.writer

GuardHeld_first(pos) == pos < 1
\* the guard of `.read().unwrap()` in the head of the for statement is a
\* temporary that lives until the statement ends
GuardHeld(pos) == TRUE

\* the head of the for loop: the read lock is taken
LkStart(ev) ==
    /\ loop = "running"
    /\ scan.pc = "poll"
    /\ Scans(ev)
    /\ CanRead(lock)
    /\ event' = IF ev.phase = "begin" THEN BeginState(ev) ELSE event
    /\ lock' = [lock EXCEPT !.readers = 1]
    /\ scan' = [pc |-> "scan", pos |-> 1, tab |-> config]
    /\ last' = ev
    /\ prev' = event.kind
    /\ calls' = <<>>
    /\ result' = "ok"
    /\ scanned' = TRUE
    /\ hist' = HistAfter(ev, TRUE)
    /\ UNCHANGED <<config, is_xorg, loop, main, ipc>>

\* one iteration of the for loop, on the table behind the lock
LkVisit ==
    /\ scan.pc = "scan"
    /\ scan.pos <= Len(config)
    /\ LET v == VisitOf(last, config, scan.pos, event, is_xorg)
       IN IF v = <<>>
          THEN /\ scan' = [scan EXCEPT !.pos = @ + 1]
               /\ lock' = IF GuardHeld(scan.pos) THEN lock ELSE [lock EXCEPT !.readers = 0]
               /\ UNCHANGED <<calls, result, loop>>
          ELSE \E failIdx \in {0, scan.pos} :
                 LET c == v[1]
                     outcome == IF c.via = "exec"
                                THEN exec_command_from_string(c, failIdx) ELSE "ok"
                 IN IF Propagates(outcome)
                    THEN /\ calls' = Append(calls, [c EXCEPT !.ok = FALSE])
                         /\ result' = "err"
                         /\ loop' = LoopAfter("err")
                         /\ lock' = [lock EXCEPT !.readers = 0]
                         /\ scan' = ScanIdle
                    ELSE /\ calls' = Append(calls, [c EXCEPT !.ok = TRUE])
                         /\ scan' = [scan EXCEPT !.pos = @ + 1]
                         /\ lock' = IF GuardHeld(scan.pos) THEN lock
                                    ELSE [lock EXCEPT !.readers = 0]
                         /\ UNCHANGED <<result, loop>>
    /\ UNCHANGED <<event, config, is_xorg, last, prev, scanned, hist, main, ipc>>

LkDone_clears ==
    /\ scan.pc = "scan"
    /\ scan.pos > Len(config)
    /\ event' = PostState(last, event)
    /\ lock' = [lock EXCEPT !.readers = 0]
    /\ scan' = ScanIdle
    /\ config' = <<>>
    /\ UNCHANGED <<is_xorg, loop, last, prev, calls, result, scanned, hist, main, ipc>>

\* the end of the for loop: the guard is dropped, then the state assigned
LkDone ==
    /\ scan.pc = "scan"
    /\ scan.pos > Len(config)
    /\ event' = PostState(last, event)
    /\ lock' = [lock EXCEPT !.readers = 0]
    /\ scan' = ScanIdle
    /\ UNCHANGED <<config, is_xorg, loop, last, prev, calls, result, scanned, hist,
                   main, ipc>>

\* a handler that enters no for loop
LkNoScan(ev) ==
    /\ loop = "running"
    /\ scan.pc = "poll"
    /\ ~Scans(ev)
    /\ event' = IF ev.phase = "begin" THEN BeginState(ev) ELSE event
    /\ Handled(ev, NoScan, FALSE)

LkPollError == scan.pc = "poll" /\ PollError

LkDispatchError == scan.pc = "poll" /\ DispatchError

\* ipc::create_socket, called by the main thread: a reload command arrives
ReloadRequest ==
    /\ main = "create_socket"
    /\ ipc.pc = "accept"
    /\ ipc.ver < MaxReloads
    /\ ipc' = [ipc EXCEPT !.pc = "reading", !.reply = "none"]
    /\ UNCHANGED <<event, config, is_xorg, loop, last, prev, calls, result, scanned,
                   hist, main, lock, scan>>

FailedReloadTable_default(t) == <<>>
\* the table in use after a re-read that failed
FailedReloadTable(t) == t

\* the configuration cannot be read or parsed
ReloadFail ==
    /\ ipc.pc = "reading"
    /\ config' = FailedReloadTable(config)
    /\ ipc' = [ipc EXCEPT !.pc = "accept", !.reply = "err"]
    /\ UNCHANGED <<event, is_xorg, loop, last, prev, calls, result, scanned, hist,
                   main, lock, scan>>

\* the configuration is read and parsed
ReloadParsed(t) ==
    /\ ipc.pc = "reading"
    /\ ipc' = [ipc EXCEPT !.pc = "parsed", !.pending = t]
    /\ UNCHANGED <<event, config, is_xorg, loop, last, prev, calls, result, scanned,
                   hist, main, lock, scan>>

\* the write lock is taken for the swap
ReloadLock ==
    /\ ipc.pc = "parsed"
    /\ CanWrite(lock)
    /\ lock' = [lock EXCEPT !.writer = TRUE]
    /\ ipc' = [ipc EXCEPT !.pc = "locked"]
    /\ UNCHANGED <<event, config, is_xorg, loop, last, prev, calls, result, scanned,
                   hist, main, scan>>

\* the table is replaced wholesale, the lock released, success reported
ReloadSwap ==
    /\ ipc.pc = "locked"
    /\ config' = ipc.pending
    /\ lock' = [lock EXCEPT !.writer = FALSE]
    /\ ipc' = [pc |-> "accept", pending |-> <<>>, reply |-> "ok",
               ver |-> ipc.ver + 1, installed |-> ipc.pending]
    /\ UNCHANGED <<event, is_xorg, loop, last, prev, calls, result, scanned, hist,
                   main, scan>>

\* run_eh: eh_thread.join().unwrap()?, reached when create_socket returns
Join ==
    /\ main = "join"
    /\ loop # "running"
    /\ main' = "done"
    /\ UNCHANGED <<event, config, is_xorg, loop, last, prev, calls, result, scanned,
                   hist, lock, scan, ipc>>

InitLock ==
    /\ Init
    /\ config \in LockTables

NextLock ==
    \/ \E ev \in LockEvents : LkStart(ev)
    \/ LkVisit
    \/ LkDone
    \/ \E ev \in LockEvents : LkNoScan(ev)
    \/ LkPollError
    \/ LkDispatchError
    \/ ReloadRequest
    \/ ReloadFail
    \/ \E t \in LockTables : ReloadParsed(t)
    \/ ReloadLock
    \/ ReloadSwap

SpecLock == InitLock /\ [][NextLock]_vars

----------------------------------------------------------------------------
(* What the latest scan was asked to match, read off the handled event and  *)
(* the gesture state, and the match rule of the specification.              *)

ScanFingers == IF last.phase = "begin" THEN last.fingers ELSE event.fingers

ScanDirection ==
    IF last.kind = "Hold" \/ last.phase = "begin" THEN "Any"
    ELSE IF last.phase = "end" THEN event.direction
    ELSE IF last.kind = "Swipe" THEN SwipeDir_dir(last.dx, last.dy)
    ELSE PinchDir_dir(last.scale, last.angle)

BindingMatches(j) ==
    /\ j.kind = last.kind
    /\ j.fingers = ScanFingers
    /\ (j.kind = "Hold" \/ j.direction = ScanDirection \/ j.direction = "Any")

MatchingIdx ==
    SelectSeq([i \in 1..Len(config) |-> i], LAMBDA i : BindingMatches(config[i]))

FiredIdx == [k \in 1..Len(calls) |-> calls[k].idx]
Fired == {calls[k].idx : k \in 1..Len(calls)}

\* the table positions the latest scan got to
Reached == IF result = "ok" THEN Len(config) ELSE calls[Len(calls)].idx

FastPathBinding(j) ==
    /\ j.kind = "Swipe"
    /\ j.direction = "Any"
    /\ j.acceleration # <<>>
    /\ j.mouse_up_delay # <<>>

----------------------------------------------------------------------------
(* C1: every scan invokes the phase action of every matching binding (kind *)
(* equal, finger count equal, direction equal to the classified one or     *)
(* Any), each exactly once and in table order.                             *)
C1_AllMatchingFire == scanned => FiredIdx = MatchingIdx

(* C2: in every scan, each binding the scan gets to is fired if and only   *)
(* if its kind and finger count equal the gesture's and its direction is   *)
(* the classified direction or Any: Any matches every classified           *)
(* direction, and no binding of another kind, another finger count or a    *)
(* different specific direction is ever fired.                             *)
C2_MatchRule ==
    scanned =>
        /\ \A i \in 1..Reached : (i \in Fired) <=> BindingMatches(config[i])
        /\ Fired \subseteq 1..Reached

C2_Witness ==
    /\ scanned
    /\ last.phase = "update"
    /\ ScanDirection \notin {"Any", "E", "Out"}
    /\ \E i \in Fired : config[i].direction = "Any"
    /\ \E i \in 1..Reached : config[i].kind = last.kind
                             /\ config[i].fingers = ScanFingers
                             /\ config[i].direction \in {"E", "Out"}
                             /\ i \notin Fired

(* C3: pointer synthesis is invoked for a binding only in a swipe event,   *)
(* only if the legacy-windowing flag is set, the binding's direction is    *)
(* Any and both acceleration and release delay are set; no binding gets    *)
(* both a pointer call and a command call in one scan.                     *)
C3_FastPathExclusive ==
    /\ \A k \in 1..Len(calls) :
         calls[k].via = "xdo" =>
            /\ last.kind = "Swipe"
            /\ is_xorg
            /\ FastPathBinding(config[calls[k].idx])
    /\ \A k, m \in 1..Len(calls) : k # m => calls[k].idx # calls[m].idx

C3_Witness ==
    /\ \E k \in 1..Len(calls) : calls[k].via = "xdo"
    /\ \E k \in 1..Len(calls) : calls[k].via = "exec" /\ calls[k].cmd # ""

(* C4: after an end event of the in-progress gesture has been handled the  *)
(* gesture state is None.                                                  *)
C4_EndResetsState ==
    (last.phase = "end" /\ prev = last.kind) => event.kind = "None"

(* C5: an end event of a kind with no begin of that kind since start-up or *)
(* since the previous end invokes nothing and raises no error.  Stated for *)
(* the end events that need no history to recognise: those that arrive in *)
(* a state of another kind or of no kind, and those that directly follow   *)
(* an end event of the same kind.                                          *)
C5_UnpairedEndIsNoOp ==
    [][(/\ last'.phase = "end"
        /\ \/ event.kind # last'.kind
           \/ (last.phase = "end" /\ last.kind = last'.kind))
          => (calls' = <<>> /\ result' = "ok")]_vars

(* C6: when the command of a matching binding fails, the actions of all    *)
(* later matching bindings are still invoked in that scan.                 *)
C6_FailureDoesNotAbortScan ==
    scanned =>
        \A i \in 1..Len(config) :
            (BindingMatches(config[i])
               /\ \E k \in 1..Len(calls) : ~calls[k].ok /\ calls[k].idx < i)
            => i \in Fired

(* C7: a failed command does not stop the event loop; the loop ends only   *)
(* on a fatal input-device or stream error.                                *)
C7_ActionFailureNotFatal ==
    /\ (\E k \in 1..Len(calls) : ~calls[k].ok) => loop = "running"
    /\ loop # "running" => last.kind \in {"PollError", "DispatchError"}

(* C8: the four numbers passed to command execution are (dx,dy,0,0) on a   *)
(* swipe update, (0,0,angle_delta,scale) on a pinch update and (0,0,0,0)   *)
(* otherwise; with the single binding {Swipe, n, D, update u, end e, start *)
(* unset} begin invokes nothing, an update classified D invokes u once     *)
(* with (dx,dy,0,0) and the end invokes e once with (0,0,0,0).             *)
C8_CommandParameters ==
    /\ \A k \in 1..Len(calls) :
         calls[k].via = "exec" =>
            calls[k].args =
               IF last.kind = "Swipe" /\ last.phase = "update"
                   THEN <<last.dx, last.dy, 0, 0>>
               ELSE IF last.kind = "Pinch" /\ last.phase = "update"
                   THEN <<0, 0, last.angle, last.scale>>
               ELSE <<0, 0, 0, 0>>
    /\ (/\ Len(config) = 1
        /\ config[1].kind = "Swipe"
        /\ config[1].direction # "Any"
        /\ config[1].start = <<>>
        /\ last.kind = "Swipe"
        /\ scanned
        /\ ScanFingers = config[1].fingers)
       => /\ last.phase = "begin" => calls = <<>>
          /\ (last.phase = "update" /\ ScanDirection = config[1].direction)
               => /\ Len(calls) = 1
                  /\ calls[1].cmd = config[1].update[1]
                  /\ calls[1].args = <<last.dx, last.dy, 0, 0>>
          /\ (last.phase = "end" /\ ScanDirection = config[1].direction)
               => /\ Len(calls) = 1
                  /\ calls[1].cmd = config[1].end[1]
                  /\ calls[1].args = <<0, 0, 0, 0>>

C8_Witness ==
    /\ Len(config) = 1
    /\ last.kind = "Swipe" /\ last.phase = "update"
    /\ last.dx = 1 /\ last.dy = 0
    /\ Len(calls) = 1
    /\ calls[1].cmd = "cmd-u"
    /\ calls[1].args = <<1, 0, 0, 0>>

(* C9: a begin event handled in any state leaves the gesture state holding *)
(* the event's kind and finger count, direction Any and no action or       *)
(* tuning field; the only error a begin can return is a failed command,    *)
(* and only begin-phase actions of the new kind are run.                    *)
C9_BeginOverwrites ==
    last.phase = "begin" =>
        /\ event.kind = last.kind
        /\ event.fingers = last.fingers
        /\ last.kind \in {"Swipe", "Pinch"} =>
              /\ event.direction = "Any"
              /\ event.start = <<>> /\ event.update = <<>> /\ event.end = <<>>
        /\ last.kind = "Swipe" =>
              event.acceleration = <<>> /\ event.mouse_up_delay = <<>>
        /\ last.kind = "Hold" => event.action = <<>>
        /\ result = "err" => (calls # <<>> /\ ~calls[Len(calls)].ok)
        /\ \A k \in 1..Len(calls) :
              /\ calls[k].slot \in {"start", "mouse_down"}
              /\ config[calls[k].idx].kind = last.kind

C9_Witness ==
    /\ last.phase = "begin"
    /\ prev \notin {"None", last.kind}
    /\ last.fingers = 4
    /\ result = "ok"

(* C10: a pointer-button-up is issued only on a swipe end that was not     *)
(* cancelled, only for a fast-path binding, with button 1 and that         *)
(* binding's delay; a cancelled end issues none.                           *)
C10_ButtonUpOnlyIfNotCancelled ==
    \A k \in 1..Len(calls) :
        calls[k].slot = "mouse_up_delay" =>
            /\ last.kind = "Swipe" /\ last.phase = "end"
            /\ ~last.cancelled
            /\ is_xorg
            /\ FastPathBinding(config[calls[k].idx])
            /\ calls[k].args = <<1, config[calls[k].idx].mouse_up_delay[1]>>

C10_Witness ==
    /\ last.kind = "Swipe" /\ last.phase = "end"
    /\ \E k \in 1..Len(calls) : calls[k].slot = "mouse_up_delay"

----------------------------------------------------------------------------
(* The classifiers, checked on the direction the update handlers store.    *)

SwipeClassified == last.kind = "Swipe" /\ last.phase = "update" /\ scanned
PinchClassified == last.kind = "Pinch" /\ last.phase = "update" /\ scanned

Compass == {"N", "S", "E", "W", "NE", "NW", "SE", "SW"}

(* C14: the swipe classifier returns Any exactly when both displacements   *)
(* are zero; any other sample gives one of the eight compass directions.   *)
C14_AnyIffStill ==
    SwipeClassified =>
        /\ event.direction \in Compass \cup {"Any"}
        /\ (last.dx = 0 /\ last.dy = 0) => event.direction = "Any"
        /\ (last.dx # 0 \/ last.dy # 0) => event.direction \in Compass

C14_Witness ==
    /\ SwipeClassified
    /\ last.dx = 0 /\ last.dy = 0
    /\ event.direction = "Any"

\* minor/major > 1/(1+sqrt(2)) = 0.41421356..., to eight decimal places
RefDiagonal(minor, major) == minor * 100000000 > major * 41421356

RefDirection(dx, dy) ==
    LET horizontal == Abs(dx) > Abs(dy)
        ew == IF dx > 0 THEN "E" ELSE "W"
        ns == IF dy < 0 THEN "N" ELSE "S"
        minor == IF horizontal THEN Abs(dy) ELSE Abs(dx)
        major == IF horizontal THEN Abs(dx) ELSE Abs(dy)
    IN IF RefDiagonal(minor, major)
       THEN (IF horizontal
             THEN (IF dy < 0 THEN "N" ELSE "S") \o ew
             ELSE ns \o (IF dx < 0 THEN "W" ELSE "E"))
       ELSE (IF horizontal THEN ew ELSE ns)

(* C15: for every non-zero sample the swipe classifier returns the         *)
(* reference direction: horizontal primary axis iff |dx| > |dy|, E for     *)
(* dx > 0, N for dy < 0, and the diagonal iff minor/major exceeds          *)
(* 1/(1+sqrt(2)), which is the same as 2*minor^2 > (major-minor)^2.        *)
C15_ReferenceDirection ==
    (SwipeClassified /\ (last.dx # 0 \/ last.dy # 0)) =>
        /\ event.direction = RefDirection(last.dx, last.dy)
        /\ LET minor == IF Abs(last.dx) > Abs(last.dy) THEN Abs(last.dy) ELSE Abs(last.dx)
               major == IF Abs(last.dx) > Abs(last.dy) THEN Abs(last.dx) ELSE Abs(last.dy)
           IN (event.direction \in {"NE", "NW", "SE", "SW"})
                 <=> 2 * minor * minor > (major - minor) * (major - minor)

C15_Witness ==
    /\ SwipeClassified
    /\ last.dx = 12 /\ last.dy = -5
    /\ event.direction = "NE"

(* C16: scaling a sample by a positive factor does not change the          *)
(* direction the swipe classifier returns.                                 *)
C16_ScaleInvariant ==
    SwipeClassified =>
        \A k \in 1..MaxFactor :
            SwipeDir_dir(k * last.dx, k * last.dy) = event.direction

C16_Witness ==
    /\ SwipeClassified
    /\ last.dx = -1 /\ last.dy = 1
    /\ event.direction = "SW"
    /\ SwipeDir_dir(MaxFactor * last.dx, MaxFactor * last.dy) = "SW"

RefPinch(scale, angle_delta) ==
    CASE scale > ScaleLow /\ scale < ScaleHigh /\ angle_delta > 0 -> "Clockwise"
      [] scale > ScaleLow /\ scale < ScaleHigh /\ angle_delta <= 0 -> "CounterClockwise"
      [] OTHER -> IF scale > ScaleOne THEN "Out" ELSE "In"

(* C17: the pinch classifier returns Clockwise or CounterClockwise by the  *)
(* sign of the angle when the scale is strictly between 0.92 and 1.08,     *)
(* else Out above 1.0 and In otherwise; 0.92 gives In, 1.08 gives Out, and *)
(* Any is never returned.                                                  *)
C17_PinchDirection ==
    PinchClassified =>
        /\ event.direction = RefPinch(last.scale, last.angle)
        /\ event.direction # "Any"
        /\ last.scale = ScaleLow => event.direction = "In"
        /\ last.scale = ScaleHigh => event.direction = "Out"

C17_Witness ==
    /\ PinchClassified
    /\ last.scale = ScaleLow
    /\ event.direction = "In"

----------------------------------------------------------------------------
(* C19: an update of the in-progress kind replaces the state by one of the *)
(* same kind holding the newly classified direction, the finger count of   *)
(* the most recent begin event and no action or tuning field.              *)
C19_UpdateReplacesState ==
    (last.phase = "update" /\ scanned) =>
        /\ event.kind = last.kind
        /\ event.direction = hist.dir
        /\ event.fingers = hist.fingers
        /\ event.start = <<>> /\ event.update = <<>> /\ event.end = <<>>
        /\ last.kind = "Swipe" =>
              event.acceleration = <<>> /\ event.mouse_up_delay = <<>>

\* the match rule of an end scan, on the last known direction
EndMatches(j) ==
    /\ j.kind = last.kind
    /\ j.fingers = hist.fingers
    /\ (j.direction = hist.dir \/ j.direction = "Any")

(* C20: the end scan of a swipe or pinch matches bindings against the      *)
(* direction classified by the most recent update of the gesture, or Any   *)
(* when the gesture had no update: earlier samples play no part, and an    *)
(* end with no update fires only bindings whose direction is Any.          *)
C20_EndMatchesLastKnown ==
    (last.phase = "end" /\ last.kind \in {"Swipe", "Pinch"} /\ scanned) =>
        /\ \A i \in 1..Reached : (i \in Fired) <=> EndMatches(config[i])
        /\ Fired \subseteq 1..Reached
        /\ hist.dir = "Any" =>
              \A i \in Fired : config[i].kind = last.kind /\ config[i].direction = "Any"

C20_Witness ==
    /\ last.phase = "end" /\ last.kind = "Swipe" /\ scanned
    /\ hist.dir = "E"
    /\ \E k \in 1..Len(calls) : calls[k].cmd = "cmd-e"
    /\ \E i \in Fired : config[i].kind = "Swipe" /\ config[i].direction = "Any"

----------------------------------------------------------------------------
(* The reload listener against the event loop.                             *)

\* what a scan of the handled event over the first n bindings of tab invokes
\* when no command fails
ScanPrefix(tab, n) ==
    RunScan([i \in 1..n |-> VisitOf(last, tab, i, event, is_xorg)], 1, 0, <<>>).calls

(* C11: a scan works on the table most recently swapped in when it         *)
(* started, whatever the gesture in progress: it evaluates the bindings of *)
(* that table from the first to the last, and no table is swapped in       *)
(* between the start and the end of a scan.                                *)
C11_ReloadVisibility ==
    scan.pc = "scan" =>
        /\ scan.tab = ipc.installed
        /\ scan.pos \in 1..(Len(scan.tab) + 1)
        /\ calls = ScanPrefix(scan.tab, scan.pos - 1)

C11_Witness ==
    /\ ipc.ver >= 1
    /\ scan.pc = "scan"
    /\ last.phase = "update"
    /\ scan.pos = Len(scan.tab) + 1
    /\ Len(calls) = 2

C13_FatalErrorTerminates ==
    loop # "running" => (main = "done" \/ ENABLED Join)

(* C18: the read lock is held from the start of a scan to its end and not  *)
(* outside a scan, no writer holds the lock during a scan, and the table   *)
(* behind the lock stays the one the scan started on.                      *)
C18_ReadLockSpansScan ==
    /\ scan.pc = "scan" => (lock.readers = 1 /\ ~lock.writer /\ config = scan.tab)
    /\ scan.pc = "poll" => lock.readers = 0

C18_Witness ==
    /\ scan.pc = "scan"
    /\ scan.pos > 1
    /\ calls # <<>>
    /\ ipc.pc = "parsed"
    /\ ipc.pending # config

----------------------------------------------------------------------------
(* C21: a swipe or pinch begin leaves the direction Any and fires the      *)
(* start action or the button-down exactly for the bindings of the kind    *)
(* with the event's finger count and direction Any, and for no other.      *)
C21_BeginFiresAnyBindings ==
    (last.phase = "begin" /\ last.kind \in {"Swipe", "Pinch"}) =>
        /\ event.direction = "Any"
        /\ \A i \in 1..Len(config) :
              (i \in Fired) <=> (/\ config[i].kind = last.kind
                                 /\ config[i].fingers = last.fingers
                                 /\ config[i].direction = "Any")

(* C22: a hold begin invokes nothing and sets the state to Hold with the   *)
(* event's finger count; a hold end in state Hold invokes the action of    *)
(* every hold binding with the state's finger count, with (0,0,0,0); no    *)
(* swipe or pinch binding is fired by a hold event.                        *)
C22_HoldDispatchesAtEnd ==
    last.kind = "Hold" =>
        /\ last.phase = "begin" => (calls = <<>> /\ event = [kind |-> "Hold",
                                       fingers |-> last.fingers, action |-> <<>>])
        /\ (last.phase = "end" /\ scanned) =>
              \A i \in 1..Len(config) :
                 (i \in Fired) <=> (config[i].kind = "Hold"
                                      /\ config[i].fingers = event.fingers)
        /\ \A k \in 1..Len(calls) :
              /\ config[calls[k].idx].kind = "Hold"
              /\ calls[k].via = "exec"
              /\ calls[k].args = <<0, 0, 0, 0>>

\* the action slot of binding j a call was made for
SlotOf(j, slot) ==
    CASE slot = "start" -> j.start
      [] slot = "update" -> j.update
      [] slot = "end" -> j.end
      [] OTHER -> j.action

(* C23: a matched binding whose action slot for the phase is unset runs no *)
(* command (the command text handed over is empty), produces no error, and *)
(* the scan goes on to the bindings after it.                              *)
C23_AbsentActionIsNoOp ==
    \A k \in 1..Len(calls) :
        (calls[k].via = "exec" /\ SlotOf(config[calls[k].idx], calls[k].slot) = <<>>) =>
            /\ calls[k].cmd = ""
            /\ calls[k].ok
            /\ k = Len(calls) => (result = "ok" /\ loop = "running")
            /\ \A i \in (calls[k].idx + 1)..Reached :
                  BindingMatches(config[i]) => i \in Fired

C23_Witness ==
    /\ scanned
    /\ Len(calls) = 2
    /\ calls[1].via = "exec" /\ calls[1].cmd = ""
    /\ config[calls[1].idx].update = <<>>
    /\ calls[2].cmd = "u-drag"

(* C24: every end event of the gesture in progress runs the end phase, for *)
(* all three kinds and, for a swipe, whether or not the end is reported as *)
(* cancelled: the end action of every matching binding the scan gets to is *)
(* invoked (only the button-up of the fast path depends on cancellation).  *)
C24_EndDispatchedOnCancel ==
    (last.phase = "end" /\ event.kind = last.kind) =>
        \A i \in 1..Reached :
            (/\ config[i].kind = last.kind
             /\ config[i].fingers = event.fingers
             /\ (last.kind = "Hold" \/ config[i].direction \in {event.direction, "Any"})
             /\ ~(last.kind = "Swipe" /\ is_xorg /\ FastPathBinding(config[i])))
            => \E k \in 1..Len(calls) : calls[k].idx = i /\ calls[k].via = "exec"

\* n/10 rounded toward zero
RefTrunc(n) ==
    CHOOSE q \in (0 - Abs(n))..Abs(n) :
        /\ Abs(n) - 10 * Abs(q) \in 0..9
        /\ (q > 0 => n > 0) /\ (q < 0 => n < 0)

(* C25: on a swipe update every fast-path binding the scan gets to is sent *)
(* one relative move of (trunc(dx*acceleration/10),                        *)
(* trunc(dy*acceleration/10)), each rounded toward zero and computed from  *)
(* this update's displacement alone, whatever the classified direction     *)
(* and also for a zero displacement.                                       *)
C25_FastPathMove ==
    /\ \A k \in 1..Len(calls) :
          calls[k].slot = "move_mouse_relative" =>
             /\ last.kind = "Swipe" /\ last.phase = "update"
             /\ calls[k].args =
                   <<RefTrunc(last.dx * config[calls[k].idx].acceleration[1]),
                     RefTrunc(last.dy * config[calls[k].idx].acceleration[1])>>
    /\ (last.kind = "Swipe" /\ last.phase = "update" /\ scanned /\ is_xorg) =>
          \A i \in 1..Reached :
             (FastPathBinding(config[i]) /\ config[i].fingers = event.fingers) =>
                /\ \E k \in 1..Len(calls) :
                      calls[k].idx = i /\ calls[k].slot = "move_mouse_relative"
                /\ \A k, l \in 1..Len(calls) :
                      (calls[k].idx = i /\ calls[l].idx = i) => k = l

C25_Witness ==
    /\ last.kind = "Swipe" /\ last.phase = "update"
    /\ last.dx = -1 /\ last.dy = 1
    /\ \E k \in 1..Len(calls) :
          /\ calls[k].slot = "move_mouse_relative"
          /\ calls[k].args = <<-1, 1>>

(* C26: an update or end event of a kind other than the kind the gesture   *)
(* state holds (or with no gesture in progress) leaves the state as it is, *)
(* invokes no command and no pointer action, and raises no error.          *)
C26_MismatchedEventIgnored ==
    [][(last'.phase \in {"update", "end"} /\ event.kind # last'.kind) =>
          /\ event' = event
          /\ calls' = <<>>
          /\ result' = "ok"
          /\ loop' = loop]_vars

C26_Witness ==
    /\ last.kind = "Pinch" /\ last.phase = "update"
    /\ event.kind = "Swipe"
    /\ calls = <<>>
    /\ loop = "running"

(* C27: the button pressed by the fast path on a swipe begin is released   *)
(* by the time the end event of that gesture has been handled: when the    *)
(* begin that pressed it is followed by the swipe end, and no command of   *)
(* the end fails, the end issues a button-up.                              *)
C27_ButtonReleasedAtEnd ==
    [][(/\ \E k \in 1..Len(calls) : calls[k].slot = "mouse_down"
        /\ last'.kind = "Swipe" /\ last'.phase = "end"
        /\ result' = "ok")
          => \E k \in 1..Len(calls') : calls'[k].slot = "mouse_up_delay"]_vars

(* C28: the two threads share the binding table only: no step of the       *)
(* reload listener changes the gesture state or anything else of the event *)
(* loop, no step of the event loop changes the table or the listener, and  *)
(* a scan started for an update or end event keeps the gesture state and   *)
(* works on the table swapped in last.                                     *)
C28_OnlyTableShared ==
    [][/\ ipc' # ipc =>
            (/\ event' = event /\ hist' = hist /\ last' = last
             /\ calls' = calls /\ result' = result /\ loop' = loop /\ scan' = scan)
       /\ (event' # event \/ last' # last \/ calls' # calls \/ scan' # scan
              \/ loop' # loop)
            => (config' = config /\ ipc' = ipc)
       /\ (scan.pc = "poll" /\ scan'.pc = "scan") =>
            (/\ scan'.tab = ipc.installed
             /\ last'.phase # "begin" => event' = event)]_vars

C28_Witness ==
    /\ ipc.ver >= 1 /\ ipc.reply = "ok"
    /\ event.kind = "Swipe" /\ hist.fingers = 3 /\ hist.dir = "E"
    /\ last.phase = "end"
    /\ scan.pc = "scan"
    /\ calls # <<>>

====
